---- MODULE Spec2Model ----
(***************************************************************************)
(* Model of the go-graphql visitor (visitor/visitor.go) walking the AST    *)
(* of model/interface.go and model/types.go.                               *)
(*                                                                         *)
(* The walk is one synchronous call of Visit.  It is modelled as a stack   *)
(* machine: one frame per active visitXxx call, one step per callback      *)
(* invocation, per call of a child visitor and per return.  Callbacks are  *)
(* owned by the caller, so the value each one returns is chosen            *)
(* nondeterministically at the moment it is invoked.                       *)
(***************************************************************************)
EXTENDS Integers, Sequences, FiniteSets, TLC

(* ----------------------------- bounds ---------------------------------- *)
MaxSelections == 2   \* longest selection list
MaxDirectives == 1   \* longest directive list
MaxFields     == 2   \* longest field list of an object/interface/input
MaxDefinitions == 2  \* longest definition list of a document
MaxTypes      == 2   \* longest "other types" list of a schema
MaxVariables  == 1   \* most variable definitions of an operation
MaxFaults     == 1   \* most callbacks returning a non-nil error that the
                     \* walk survives (prune signals) in one walk

(* ------------------------- the AST (model package) --------------------- *)
\* A node is a record with a kind and the ordered child lists its Go type
\* declares.  Lists are sequences in insertion order (Add appends).

Range(s) == {s[i] : i \in 1..Len(s)}

\* n copies of e
RECURSIVE Repeat(_, _)
Repeat(e, n) == IF n = 0 THEN <<>> ELSE <<e>> \o Repeat(e, n - 1)

\* what the nodes without visited children hold: one of each is enough
\* to tell whether a walk reaches them
Argument == [kind |-> "Argument"]
ObjectFieldArgumentDefinition == [kind |-> "ObjectFieldArgumentDefinition"]
EnumElementDefinition == [kind |-> "EnumElementDefinition"]
NamedType == [kind |-> "NamedType"]

Directive == [kind |-> "Directive", arguments |-> <<Argument>>]
VariableDefinition == [kind |-> "VariableDefinition"]
FragmentSpread(dirs) == [kind |-> "FragmentSpread", directives |-> dirs]
SelectionField(dirs, sels) ==
    [kind |-> "SelectionField", directives |-> dirs, selections |-> sels]
InlineFragment(dirs, sels) ==
    [kind |-> "InlineFragment", directives |-> dirs, selections |-> sels]
\* a Selection value that is none of the three variants (Selection is
\* interface{}, so any value can be stored in a selection list)
OtherSelection == [kind |-> "OtherSelection"]

OperationDefinition(vars, dirs, sels) ==
    [kind |-> "OperationDefinition", variables |-> vars,
     directives |-> dirs, selections |-> sels]
FragmentDefinition(dirs, sels) ==
    [kind |-> "FragmentDefinition", directives |-> dirs, selections |-> sels]
ObjectFieldDefinition ==
    [kind |-> "ObjectFieldDefinition",
     arguments |-> <<ObjectFieldArgumentDefinition>>]
InterfaceFieldDefinition == [kind |-> "InterfaceFieldDefinition"]
InputFieldDefinition == [kind |-> "InputFieldDefinition"]
ObjectDefinition(n) ==
    [kind |-> "ObjectDefinition", fields |-> Repeat(ObjectFieldDefinition, n)]
InterfaceDefinition(n) ==
    [kind |-> "InterfaceDefinition",
     fields |-> Repeat(InterfaceFieldDefinition, n)]
InputDefinition(n) ==
    [kind |-> "InputDefinition", fields |-> Repeat(InputFieldDefinition, n)]
EnumDefinition ==
    [kind |-> "EnumDefinition", elements |-> <<EnumElementDefinition>>]
UnionDefinition == [kind |-> "UnionDefinition", types |-> <<NamedType>>]
\* a Definition value that is none of the seven variants
OtherDefinition == [kind |-> "OtherDefinition"]

Document(defs) == [kind |-> "Document", definitions |-> defs]
Schema(q, ts) == [kind |-> "Schema", query |-> q, types |-> ts]
\* a root value that is neither a Document nor a Schema
OtherRoot == [kind |-> "OtherRoot"]

(* ---------------------- the trees that are walked ---------------------- *)
\* Every list is a head element of any shape followed by a tail of
\* childless elements, so that the number of trees stays small while every
\* list length up to its bound and every nesting occurs.

DirectiveLists == {Repeat(Directive, n) : n \in 0..MaxDirectives}

LeafField == SelectionField(<<>>, <<>>)

SelectionTails == {Repeat(LeafField, n) : n \in 0..(MaxSelections - 1)}

InnerSelections ==
    {LeafField, FragmentSpread(<<>>), InlineFragment(<<>>, <<>>),
     OtherSelection}

InnerSelectionLists ==
    {<<>>} \cup {<<e>> \o t : e \in InnerSelections, t \in SelectionTails}

OuterSelections ==
    {FragmentSpread(d) : d \in DirectiveLists} \cup {OtherSelection}
    \cup {SelectionField(d, s) : d \in DirectiveLists, s \in InnerSelectionLists}
    \cup {InlineFragment(d, s) : d \in DirectiveLists, s \in InnerSelectionLists}

OuterSelectionLists ==
    {<<>>} \cup {<<e>> \o t : e \in OuterSelections, t \in SelectionTails}

HeadDefinitions ==
    {OperationDefinition(<<>>, <<>>, s) : s \in OuterSelectionLists}
    \cup {OperationDefinition(Repeat(VariableDefinition, MaxVariables),
                              Repeat(Directive, MaxDirectives), <<LeafField>>)}
    \cup {FragmentDefinition(d, s) :
             d \in DirectiveLists, s \in InnerSelectionLists}
    \cup {ObjectDefinition(n) : n \in 0..MaxFields}
    \cup {InterfaceDefinition(n) : n \in 0..MaxFields}
    \cup {InputDefinition(n) : n \in 0..MaxFields}
    \cup {EnumDefinition, UnionDefinition, OtherDefinition}

DefinitionTails == {Repeat(EnumDefinition, n) : n \in 0..(MaxDefinitions - 1)}

Documents ==
    {Document(<<>>)}
    \cup {Document(<<e>> \o t) : e \in HeadDefinitions, t \in DefinitionTails}

Schemas ==
    {Schema(ObjectDefinition(q), Repeat(ObjectDefinition(f), n)) :
        q \in 0..MaxFields, f \in 0..1, n \in 0..MaxTypes}

Roots == Documents \cup Schemas \cup {OtherRoot}

(* --------------------------- the callback table ------------------------ *)
\* Handler (visitor.go:12-77): every field may be nil.  A handler table is
\* modelled as the set of the fields that are set.
AllCallbacks ==
    {"EnterSchema", "LeaveSchema", "EnterDocument", "LeaveDocument",
     "EnterDefinitionList", "LeaveDefinitionList",
     "EnterDefinition", "LeaveDefinition",
     "EnterDirectiveList", "LeaveDirectiveList",
     "EnterDirective", "LeaveDirective",
     "EnterOperationDefinition", "LeaveOperationDefinition",
     "EnterFragmentDefinition", "LeaveFragmentDefinition",
     "EnterObjectDefinition", "LeaveObjectDefinition",
     "EnterObjectFieldDefinitionList", "LeaveObjectFieldDefinitionList",
     "EnterObjectFieldDefinition", "LeaveObjectFieldDefinition",
     "EnterInterfaceDefinition", "LeaveInterfaceDefinition",
     "EnterInterfaceFieldDefinition", "LeaveInterfaceFieldDefinition",
     "EnterEnumDefinition", "LeaveEnumDefinition",
     "EnterUnionDefinition", "LeaveUnionDefinition",
     "EnterInputDefinition", "LeaveInputDefinition",
     "EnterInputFieldDefinitionList", "LeaveInputFieldDefinitionList",
     "EnterInputFieldDefinition", "LeaveInputFieldDefinition",
     "EnterSelectionList", "LeaveSelectionList",
     "EnterSelection", "LeaveSelection",
     "EnterSelectionField", "LeaveSelectionField",
     "EnterFragmentSpread", "LeaveFragmentSpread",
     "EnterInlineFragment", "LeaveInlineFragment",
     "EnterSchemaQuery", "LeaveSchemaQuery"}

\* the callbacks of the logging scenario
LoggingCallbacks ==
    {"EnterOperationDefinition", "LeaveOperationDefinition",
     "EnterSelectionList", "LeaveSelectionList",
     "EnterSelection", "LeaveSelection",
     "EnterSelectionField", "LeaveSelectionField"}

\* the handler tables that are tried
Handlers == {AllCallbacks, LoggingCallbacks, {}}

\* What a callback returns: nil, an error whose Prune() is true, an error
\* that implements Pruner with Prune() false, or any other error.
Results == {"nil", "PruneTrue", "PruneFalse", "Fatal"}

\* isPruneError: does the error implement Pruner
isPruneError(r) == r \in {"PruneTrue", "PruneFalse"}

\* Prune() of an error that asks to prune whatever it holds
PruneAlways(r) == TRUE

\* Pruner.Prune()
Prune(r) == r = "PruneTrue"

(* ------------------------------ state ---------------------------------- *)
VARIABLES
    root,    \* the value v passed to Visit
    h,       \* the handler table passed to Visit
    stack,   \* the active visitXxx calls, innermost last
    log,     \* the callbacks invoked so far, with what each returned
    err,     \* the error being returned (cause "nil": none)
    status,  \* "start", "running" or "done"
    chan     \* the channel ch that visitSchema makes, fills and closes

vars == <<root, h, stack, log, err, status, chan>>

\* An error value: its underlying cause, the position in the log of the
\* callback that returned it (0: it was made by the visitor itself), and
\* the messages it was wrapped with, innermost first.
NoError == [cause |-> "nil", at |-> 0, crumbs |-> <<>>]

\* errors.Errorf(msg)
Errorf(msg) == [cause |-> msg, at |-> 0, crumbs |-> <<>>]

\* the error returned by the callback logged at position i
CallbackError(i) == [cause |-> "callback", at |-> i, crumbs |-> <<>>]

\* errors.Wrap(err, msg): the cause is kept, the message is added
Wrap(e, msg) == [cause |-> e.cause, at |-> e.at, crumbs |-> Append(e.crumbs, msg)]

(* ----------------------------- tree access ----------------------------- *)
\* A node is named by its path from the root: a sequence of steps
\* <<list name, index>>.
Child(n, step) ==
    IF step[1] = "query" THEN n.query ELSE n[step[1]][step[2]]

RECURSIVE At(_, _)
At(n, p) == IF p = <<>> THEN n ELSE At(Child(n, Head(p)), Tail(p))

Node(p) == At(root, p)

\* XxxList.Iterator(): a channel holding the elements of the list in
\* insertion order, filled and closed before it is returned.
Iterator(p, name) ==
    [i \in 1..Len(Node(p)[name]) |-> p \o <<<<name, i>>>>]

(* -------------------------- the visit functions ------------------------ *)
\* Each visitXxx is described by the record of what its code does: the
\* callback it invokes on entry and on exit, whether an entry error that
\* implements Pruner is honoured, whether it returns at once on an empty
\* channel, the messages it wraps callback errors with, and its body: the
\* visitors it calls between the two callbacks, in order, each with the
\* message the caller wraps a failure of the call with.

Call(fn, v, ch, wrap) == [fn |-> fn, node |-> v, ch |-> ch, wrap |-> wrap]

\* a return of errors.Errorf(msg) in place of a call
Fail(v, msg) == [fn |-> "Errorf", node |-> v, ch |-> <<>>, wrap |-> msg]

\* ForRange taking the elements last to first
ForRangeReversed(ch, fn, wrap) ==
    [i \in 1..Len(ch) |-> Call(fn, ch[Len(ch) + 1 - i], <<>>, wrap)]

\* for e := range ch { visitElem(e) }
ForRange(ch, fn, wrap) == [i \in 1..Len(ch) |-> Call(fn, ch[i], <<>>, wrap)]

\* SchemaChannel with the query root sent before the other types
SchemaChannelQueryFirst(v) == <<v \o <<<<"query", 1>>>>>> \o Iterator(v, "types")

\* visitor.go:121-136: the other types and then the query root are put into
\* one channel of capacity len(typch)+1, which is closed before it is read
SchemaChannel(v) == Iterator(v, "types") \o <<v \o <<<<"query", 1>>>>>>

\* visitSchema that hands the query root to visitSchemaQuery
visitSchemaCallingSchemaQuery(v) ==
    [enter |-> "EnterSchema", leave |-> "LeaveSchema",
     respectsPrune |-> TRUE, lenCheck |-> FALSE,
     enterWrap |-> "failed to visit document (enter)",
     leaveWrap |-> "failed to visit document (leave)",
     body |-> <<Call("visitDefinitionList", v, Iterator(v, "types"),
                     "failed to visit schema component list"),
                Call("visitSchemaQuery", v \o <<<<"query", 1>>>>, <<>>,
                     "failed to visit schema query")>>]

visitSchema(v) ==
    [enter |-> "EnterSchema", leave |-> "LeaveSchema",
     respectsPrune |-> TRUE, lenCheck |-> FALSE,
     enterWrap |-> "failed to visit document (enter)",
     leaveWrap |-> "failed to visit document (leave)",
     body |-> <<Call("visitDefinitionList", v, SchemaChannel(v),
                     "failed to visit schema component list")>>]

visitSchemaQuery(v) ==
    [enter |-> "EnterSchemaQuery", leave |-> "LeaveSchemaQuery",
     respectsPrune |-> TRUE, lenCheck |-> FALSE,
     enterWrap |-> "failed to visit schema query (enter)",
     leaveWrap |-> "failed to visit schema query (leave)",
     body |-> <<Call("visitObjectFieldDefinitionList", v, Iterator(v, "fields"),
                     "failed to visit object definition list")>>]

visitDocument(v) ==
    [enter |-> "EnterDocument", leave |-> "LeaveDocument",
     respectsPrune |-> TRUE, lenCheck |-> FALSE,
     enterWrap |-> "failed to visit document (enter)",
     leaveWrap |-> "failed to visit document (leave)",
     body |-> <<Call("visitDefinitionList", v, Iterator(v, "definitions"),
                     "failed to visit definition list")>>]

visitDefinitionList(v, ch) ==
    [enter |-> "EnterDefinitionList", leave |-> "LeaveDefinitionList",
     respectsPrune |-> FALSE, lenCheck |-> TRUE,
     enterWrap |-> "failed to handle definition list (enter)",
     leaveWrap |-> "failed to handle definition list (leave)",
     body |-> ForRange(ch, "visitDefinition",
                       "failed to visit document definition")]

\* the type switch of visitDefinition (visitor.go:233-264)
\* DefinitionSwitch whose last case takes every remaining value
DefinitionSwitchWithoutDefault(v) ==
    LET k == Node(v).kind IN
    CASE k = "OperationDefinition" ->
           Call("visitOperationDefinition", v, <<>>,
                "failed to visit operation definition")
      [] k = "FragmentDefinition" ->
           Call("visitFragmentDefinition", v, <<>>,
                "failed to visit fragment definition")
      [] k = "ObjectDefinition" ->
           Call("visitObjectDefinition", v, <<>>,
                "failed to visit object type definition")
      [] k = "InterfaceDefinition" ->
           Call("visitInterfaceDefinition", v, <<>>,
                "failed to visit object type definition")
      [] k = "InputDefinition" ->
           Call("visitInputDefinition", v, <<>>,
                "failed to visit input definition")
      [] k = "UnionDefinition" ->
           Call("visitUnionDefinition", v, <<>>,
                "failed to visit union definition")
      [] OTHER ->
           Call("visitEnumDefinition", v, <<>>,
                "failed to visit enum definition")

DefinitionSwitch(v) ==
    LET k == Node(v).kind IN
    CASE k = "OperationDefinition" ->
           Call("visitOperationDefinition", v, <<>>,
                "failed to visit operation definition")
      [] k = "FragmentDefinition" ->
           Call("visitFragmentDefinition", v, <<>>,
                "failed to visit fragment definition")
      [] k = "ObjectDefinition" ->
           Call("visitObjectDefinition", v, <<>>,
                "failed to visit object type definition")
      [] k = "InterfaceDefinition" ->
           Call("visitInterfaceDefinition", v, <<>>,
                "failed to visit object type definition")
      [] k = "EnumDefinition" ->
           Call("visitEnumDefinition", v, <<>>,
                "failed to visit enum definition")
      [] k = "UnionDefinition" ->
           Call("visitUnionDefinition", v, <<>>,
                "failed to visit union definition")
      [] k = "InputDefinition" ->
           Call("visitInputDefinition", v, <<>>,
                "failed to visit input definition")
      [] OTHER -> Fail(v, "unknown definition")

\* visitDefinition that does not test isPruneError on the result of
\* EnterDefinition
visitDefinitionUntested(v) ==
    [enter |-> "EnterDefinition", leave |-> "LeaveDefinition",
     respectsPrune |-> FALSE, lenCheck |-> FALSE,
     enterWrap |-> "failed to visit definition (enter)",
     leaveWrap |-> "failed to visit definition (leave)",
     body |-> <<DefinitionSwitch(v)>>]

visitDefinition(v) ==
    [enter |-> "EnterDefinition", leave |-> "LeaveDefinition",
     respectsPrune |-> TRUE, lenCheck |-> FALSE,
     enterWrap |-> "failed to visit definition (enter)",
     leaveWrap |-> "failed to visit definition (leave)",
     body |-> <<DefinitionSwitch(v)>>]

\* visitOperationDefinition invoking LeaveOperationDefinition before the
\* selections are visited, i.e. with an empty body between the callbacks
\* OperationSelections that also visits the directives of the operation
OperationDirectivesThenSelections(v) ==
    <<Call("visitDirectiveList", v, Iterator(v, "directives"),
           "failed to visit directive list"),
      Call("visitSelectionList", v, Iterator(v, "selections"),
           "failed to visit selection list")>>

\* what visitOperationDefinition visits between the two callbacks
\* (visitor.go:288-290): the selections, and nothing else
OperationSelections(v) ==
    <<Call("visitSelectionList", v, Iterator(v, "selections"),
           "failed to visit selection list")>>

visitOperationDefinitionShallow(v) ==
    [enter |-> "EnterOperationDefinition", leave |-> "LeaveOperationDefinition",
     respectsPrune |-> TRUE, lenCheck |-> FALSE,
     enterWrap |-> "failed to visit operation definition (enter)",
     leaveWrap |-> "failed to visit operation definition (leave)",
     body |-> <<>>]

visitOperationDefinition(v) ==
    [enter |-> "EnterOperationDefinition", leave |-> "LeaveOperationDefinition",
     respectsPrune |-> TRUE, lenCheck |-> FALSE,
     enterWrap |-> "failed to visit operation definition (enter)",
     leaveWrap |-> "failed to visit operation definition (leave)",
     body |-> OperationSelections(v)]

visitSelectionList(v, ch) ==
    [enter |-> "EnterSelectionList", leave |-> "LeaveSelectionList",
     respectsPrune |-> FALSE, lenCheck |-> TRUE,
     enterWrap |-> "failed to handle selection list (enter)",
     leaveWrap |-> "failed to handle selection list (leave)",
     body |-> ForRange(ch, "visitSelection", "failed to visit selection")]

\* the type switch of visitSelection (visitor.go:335-350)
SelectionSwitch(v) ==
    LET k == Node(v).kind IN
    CASE k = "SelectionField" ->
           Call("visitSelectionField", v, <<>>,
                "failed to visit selection field")
      [] k = "FragmentSpread" ->
           Call("visitFragmentSpread", v, <<>>,
                "failed to visit fragment spread")
      [] k = "InlineFragment" ->
           Call("visitInlineFragment", v, <<>>,
                "failed to visit inline fragment")
      [] OTHER -> Fail(v, "invalid selection type")

visitSelection(v) ==
    [enter |-> "EnterSelection", leave |-> "LeaveSelection",
     respectsPrune |-> TRUE, lenCheck |-> FALSE,
     enterWrap |-> "failed to visit selection (enter)",
     leaveWrap |-> "failed to visit selection (leave)",
     body |-> <<SelectionSwitch(v)>>]

\* DirectivesThenSelections with the two calls exchanged
SelectionsThenDirectives(v) ==
    <<Call("visitSelectionList", v, Iterator(v, "selections"),
           "failed to visit selection list"),
      Call("visitDirectiveList", v, Iterator(v, "directives"),
           "failed to visit directive list")>>

\* the body shared by visitSelectionField, visitInlineFragment and
\* visitFragmentDefinition: the directives, then the selections
DirectivesThenSelections(v) ==
    <<Call("visitDirectiveList", v, Iterator(v, "directives"),
           "failed to visit directive list"),
      Call("visitSelectionList", v, Iterator(v, "selections"),
           "failed to visit selection list")>>

visitSelectionField(v) ==
    [enter |-> "EnterSelectionField", leave |-> "LeaveSelectionField",
     respectsPrune |-> TRUE, lenCheck |-> FALSE,
     enterWrap |-> "failed to visit selection field (enter)",
     leaveWrap |-> "failed to visit selection field (leave)",
     body |-> DirectivesThenSelections(v)]

visitDirectiveList(v, ch) ==
    [enter |-> "EnterDirectiveList", leave |-> "LeaveDirectiveList",
     respectsPrune |-> FALSE, lenCheck |-> TRUE,
     enterWrap |-> "failed to visit directive list (enter)",
     leaveWrap |-> "failed to visit directive list (leave)",
     body |-> ForRange(ch, "visitDirective", "failed to visit directive")]

\* visitDirective that tests isPruneError on the result of EnterDirective
visitDirectiveRespectingPrune(v) ==
    [enter |-> "EnterDirective", leave |-> "LeaveDirective",
     respectsPrune |-> TRUE, lenCheck |-> FALSE,
     enterWrap |-> "failed to visit directive (enter)",
     leaveWrap |-> "failed to visit directive (leave)",
     body |-> <<>>]

visitDirective(v) ==
    [enter |-> "EnterDirective", leave |-> "LeaveDirective",
     respectsPrune |-> FALSE, lenCheck |-> FALSE,
     enterWrap |-> "failed to visit directive (enter)",
     leaveWrap |-> "failed to visit directive (leave)",
     body |-> <<>>]

\* visitFragmentSpread that visits the directives of the spread
visitFragmentSpreadWithDirectives(v) ==
    [enter |-> "EnterFragmentSpread", leave |-> "LeaveFragmentSpread",
     respectsPrune |-> FALSE, lenCheck |-> FALSE,
     enterWrap |-> "failed to visit fragment spread (enter)",
     leaveWrap |-> "failed to visit fragment spread (leave)",
     body |-> <<Call("visitDirectiveList", v, Iterator(v, "directives"),
                     "failed to visit directive list")>>]

visitFragmentSpread(v) ==
    [enter |-> "EnterFragmentSpread", leave |-> "LeaveFragmentSpread",
     respectsPrune |-> FALSE, lenCheck |-> FALSE,
     enterWrap |-> "failed to visit fragment spread (enter)",
     leaveWrap |-> "failed to visit fragment spread (leave)",
     body |-> <<>>]

visitInlineFragment(v) ==
    [enter |-> "EnterInlineFragment", leave |-> "LeaveInlineFragment",
     respectsPrune |-> TRUE, lenCheck |-> FALSE,
     enterWrap |-> "failed to visit inline fragment (enter)",
     leaveWrap |-> "failed to visit inline fragment (leave)",
     body |-> DirectivesThenSelections(v)]

visitFragmentDefinition(v) ==
    [enter |-> "EnterFragmentDefinition", leave |-> "LeaveFragmentDefinition",
     respectsPrune |-> TRUE, lenCheck |-> FALSE,
     enterWrap |-> "failed to visit fragment definition (enter)",
     leaveWrap |-> "failed to visit fragment definition (leave)",
     body |-> DirectivesThenSelections(v)]

visitObjectDefinition(v) ==
    [enter |-> "EnterObjectDefinition", leave |-> "LeaveObjectDefinition",
     respectsPrune |-> TRUE, lenCheck |-> FALSE,
     enterWrap |-> "failed to visit object definition (enter)",
     leaveWrap |-> "failed to visit object definition (leave)",
     body |-> <<Call("visitObjectFieldDefinitionList", v, Iterator(v, "fields"),
                     "failed to visit object definition list")>>]

visitObjectFieldDefinitionList(v, ch) ==
    [enter |-> "EnterObjectFieldDefinitionList",
     leave |-> "LeaveObjectFieldDefinitionList",
     respectsPrune |-> FALSE, lenCheck |-> TRUE,
     enterWrap |-> "failed to visit object field definition list (enter)",
     leaveWrap |-> "failed to visit object field definition list (leave)",
     body |-> ForRange(ch, "visitObjectFieldDefinition",
                       "failed to visit object field definition")]

visitObjectFieldDefinition(v) ==
    [enter |-> "EnterObjectFieldDefinition",
     leave |-> "LeaveObjectFieldDefinition",
     respectsPrune |-> FALSE, lenCheck |-> FALSE,
     enterWrap |-> "failed to visit object field definition (enter)",
     leaveWrap |-> "failed to visit object field definition (leave)",
     body |-> <<>>]

\* the fields are ranged over in visitInterfaceDefinition itself: there is
\* no list visitor and no list callback for them
visitInterfaceDefinition(v) ==
    [enter |-> "EnterInterfaceDefinition", leave |-> "LeaveInterfaceDefinition",
     respectsPrune |-> TRUE, lenCheck |-> FALSE,
     enterWrap |-> "failed to visit interface definition (enter)",
     leaveWrap |-> "failed to visit interface definition (leave)",
     body |-> ForRange(Iterator(v, "fields"), "visitInterfaceFieldDefinition",
                       "failed to visit interface field definition")]

visitInterfaceFieldDefinition(v) ==
    [enter |-> "EnterInterfaceFieldDefinition",
     leave |-> "LeaveInterfaceFieldDefinition",
     respectsPrune |-> FALSE, lenCheck |-> FALSE,
     enterWrap |-> "failed to visit interface field definition (enter)",
     leaveWrap |-> "failed to visit interface field definition (leave)",
     body |-> <<>>]

visitEnumDefinition(v) ==
    [enter |-> "EnterEnumDefinition", leave |-> "LeaveEnumDefinition",
     respectsPrune |-> FALSE, lenCheck |-> FALSE,
     enterWrap |-> "failed to visit enum definition (enter)",
     leaveWrap |-> "failed to visit enum definition (leave)",
     body |-> <<>>]

\* visitUnionDefinition pasted from visitEnumDefinition with the leave
\* callback left unchanged
visitUnionDefinitionPasted(v) ==
    [enter |-> "EnterUnionDefinition", leave |-> "LeaveEnumDefinition",
     respectsPrune |-> FALSE, lenCheck |-> FALSE,
     enterWrap |-> "failed to visit union definition (enter)",
     leaveWrap |-> "failed to visit union definition (leave)",
     body |-> <<>>]

visitUnionDefinition(v) ==
    [enter |-> "EnterUnionDefinition", leave |-> "LeaveUnionDefinition",
     respectsPrune |-> FALSE, lenCheck |-> FALSE,
     enterWrap |-> "failed to visit union definition (enter)",
     leaveWrap |-> "failed to visit union definition (leave)",
     body |-> <<>>]

visitInputDefinition(v) ==
    [enter |-> "EnterInputDefinition", leave |-> "LeaveInputDefinition",
     respectsPrune |-> TRUE, lenCheck |-> FALSE,
     enterWrap |-> "failed to visit input definition (enter)",
     leaveWrap |-> "failed to visit input definition (leave)",
     body |-> <<Call("visitInputFieldDefinitionList", v, Iterator(v, "fields"),
                     "failed to visit input field definition list")>>]

\* visitor.go:697-723: no test of len(ch); the entry error is checked for
\* Pruner; the callback invoked on exit is EnterInputFieldDefinitionList
\* again, and its error is wrapped with the "(enter)" message.
visitInputFieldDefinitionList(v, ch) ==
    [enter |-> "EnterInputFieldDefinitionList",
     leave |-> "EnterInputFieldDefinitionList",
     respectsPrune |-> TRUE, lenCheck |-> FALSE,
     enterWrap |-> "failed to visit input field definition list (enter)",
     leaveWrap |-> "failed to visit input field definition list (enter)",
     body |-> ForRange(ch, "visitInputFieldDefinition",
                       "failed to visit input field definition")]

visitInputFieldDefinition(v) ==
    [enter |-> "EnterInputFieldDefinition",
     leave |-> "LeaveInputFieldDefinition",
     respectsPrune |-> FALSE, lenCheck |-> FALSE,
     enterWrap |-> "failed to visit input field definition (enter)",
     leaveWrap |-> "failed to visit input field definition (leave)",
     body |-> <<>>]

\* the code of the function a call names
Code(c) ==
    CASE c.fn = "visitSchema" -> visitSchema(c.node)
      [] c.fn = "visitSchemaQuery" -> visitSchemaQuery(c.node)
      [] c.fn = "visitDocument" -> visitDocument(c.node)
      [] c.fn = "visitDefinitionList" -> visitDefinitionList(c.node, c.ch)
      [] c.fn = "visitDefinition" -> visitDefinition(c.node)
      [] c.fn = "visitOperationDefinition" -> visitOperationDefinition(c.node)
      [] c.fn = "visitSelectionList" -> visitSelectionList(c.node, c.ch)
      [] c.fn = "visitSelection" -> visitSelection(c.node)
      [] c.fn = "visitSelectionField" -> visitSelectionField(c.node)
      [] c.fn = "visitDirectiveList" -> visitDirectiveList(c.node, c.ch)
      [] c.fn = "visitDirective" -> visitDirective(c.node)
      [] c.fn = "visitFragmentSpread" -> visitFragmentSpread(c.node)
      [] c.fn = "visitInlineFragment" -> visitInlineFragment(c.node)
      [] c.fn = "visitFragmentDefinition" -> visitFragmentDefinition(c.node)
      [] c.fn = "visitObjectDefinition" -> visitObjectDefinition(c.node)
      [] c.fn = "visitObjectFieldDefinitionList" ->
           visitObjectFieldDefinitionList(c.node, c.ch)
      [] c.fn = "visitObjectFieldDefinition" ->
           visitObjectFieldDefinition(c.node)
      [] c.fn = "visitInterfaceDefinition" -> visitInterfaceDefinition(c.node)
      [] c.fn = "visitInterfaceFieldDefinition" ->
           visitInterfaceFieldDefinition(c.node)
      [] c.fn = "visitEnumDefinition" -> visitEnumDefinition(c.node)
      [] c.fn = "visitUnionDefinition" -> visitUnionDefinition(c.node)
      [] c.fn = "visitInputDefinition" -> visitInputDefinition(c.node)
      [] c.fn = "visitInputFieldDefinitionList" ->
           visitInputFieldDefinitionList(c.node, c.ch)
      [] c.fn = "visitInputFieldDefinition" ->
           visitInputFieldDefinition(c.node)

(* ------------------------------ the walk ------------------------------- *)
\* A frame is a call in progress: the call, where it is ("enter": before
\* the entry callback, "body": after it) and the calls of its body that
\* are still to be made (none when the entry callback pruned).
Frame(c) == [fn |-> c.fn, node |-> c.node, ch |-> c.ch, wrap |-> c.wrap,
             pc |-> "enter", todo |-> Code(c).body]

Top == stack[Len(stack)]
Caller == SubSeq(stack, 1, Len(stack) - 1)
SetTop(f) == [stack EXCEPT ![Len(stack)] = f]

\* RootDispatch falling out of the switch with `return nil`
RootDispatchSilent(v) ==
    CASE v.kind = "Document" -> Call("visitDocument", <<>>, <<>>, "")
      [] v.kind = "Schema" -> Call("visitSchema", <<>>, <<>>, "")
      [] OTHER -> Fail(<<>>, NoError.cause)

\* Visit (visitor.go:99-107): the switch on the type of v
RootDispatch(v) ==
    CASE v.kind = "Document" -> Call("visitDocument", <<>>, <<>>, "")
      [] v.kind = "Schema" -> Call("visitSchema", <<>>, <<>>, "")
      [] OTHER -> Fail(<<>>, "invalid input type for visit")

\* EnterOutcome without the isPruneError test: every error of a visitor
\* that honours pruning is asked for Prune()
EnterOutcomeUntested(respectsPrune, r) ==
    IF r = "nil" THEN "descend"
    ELSE IF respectsPrune
         THEN (IF Prune(r) THEN "prune" ELSE "descend")
         ELSE "abort"

\* What a visitor does with the value its entry callback returned: go on
\* into the body ("descend"), skip the body ("prune") or return the error
\* ("abort").  `prune = perr.Prune()` is only reached in the visitors that
\* test isPruneError.
EnterOutcome(respectsPrune, r) ==
    IF r = "nil" THEN "descend"
    ELSE IF respectsPrune /\ isPruneError(r)
         THEN (IF Prune(r) THEN "prune" ELSE "descend")
         ELSE "abort"

\* LeaveOutcome testing the error for Pruner as the entry code does: an
\* error that implements Pruner does not make the visitor return it
LeaveOutcomePruning(r) ==
    IF r = "nil" \/ isPruneError(r) THEN "return" ELSE "abort"

\* What a visitor does with the value its exit callback returned
LeaveOutcome(r) == IF r = "nil" THEN "return" ELSE "abort"

\* the callbacks that returned an error so far
Faults == Cardinality({i \in DOMAIN log : log[i].res # "nil"})

Event(cb, f, r) == [cb |-> cb, fn |-> f.fn, node |-> f.node, res |-> r]

\* The channel of visitSchema (visitor.go:125-131): its capacity, the
\* values in its buffer, whether it is closed, the values visitSchema has
\* still to send, and how far visitSchema is with it: "none" before make,
\* "sending" up to close, "produced" after.
NoChannel ==
    [pc |-> "none", cap |-> 0, buf |-> <<>>, closed |-> FALSE,
     tosend |-> <<>>]

\* a capacity of len(typch), with no room for the query root
CapacityOfTypes(v) == Len(Iterator(v, "types"))

\* len(typch) + 1 (visitor.go:126)
Capacity(v) == Len(Iterator(v, "types")) + 1

\* the innermost call is the visitDefinitionList that visitSchema called:
\* its `for def := range ch` receives from the channel of visitSchema
RangesOverChan ==
    /\ Len(stack) >= 2
    /\ Top.fn = "visitDefinitionList"
    /\ stack[Len(stack) - 1].fn = "visitSchema"

Init ==
    /\ root \in Roots
    /\ h \in Handlers
    /\ stack = <<>>
    /\ log = <<>>
    /\ err = NoError
    /\ status = "start"
    /\ chan = NoChannel

\* Visit is called
Visit ==
    /\ status = "start"
    /\ LET c == RootDispatch(root) IN
       IF c.fn = "Errorf"
       THEN /\ err' = Errorf(c.wrap)
            /\ status' = "done"
            /\ stack' = stack
       ELSE /\ stack' = <<Frame(c)>>
            /\ status' = "running"
            /\ err' = err
    /\ UNCHANGED <<root, h, chan, log>>

\* ReturnNil where Visit does not return once visitDocument or visitSchema
\* has returned nil
ReturnNilStuck ==
    /\ stack' = Caller
    /\ status' = IF Caller = <<>> THEN "blocked" ELSE "running"
    /\ err' = err

\* the called visitor returns nil to its caller
ReturnNil ==
    /\ stack' = Caller
    /\ status' = IF Caller = <<>> THEN "done" ELSE "running"
    /\ err' = err

\* Propagate with every caller returning the error as it is
PropagateUnwrapped(e, stk) == e

\* if err := visitXxx(...); err != nil { return errors.Wrap(err, msg) }
\* in every caller of the failed call, innermost first: frame i was called
\* by frame i-1, which wraps the error with the message of that call.
\* Visit returns the error of visitDocument or visitSchema as it is.
RECURSIVE Propagate(_, _)
Propagate(e, stk) ==
    IF Len(stk) <= 1 THEN e
    ELSE Propagate(Wrap(e, stk[Len(stk)].wrap), SubSeq(stk, 1, Len(stk) - 1))

\* the visitor returns e: no statement of any caller runs but the return
\* of the wrapped error, up to Visit
ReturnError(e) ==
    /\ err' = Propagate(e, stack)
    /\ status' = "done"
    /\ stack' = <<>>

\* if len(ch) == 0 { return nil }
EmptyList ==
    /\ status = "running"
    /\ Top.pc = "enter"
    /\ Code(Top).lenCheck
    /\ Top.ch = <<>>
    /\ ReturnNil
    /\ UNCHANGED <<root, h, chan, log>>

\* CallEnter with `prune` left true when h.EnterXxx is nil: the body of a
\* visitor whose enter callback is not registered is skipped
CallEnterNilPrunes ==
    /\ status = "running"
    /\ Top.pc = "enter"
    /\ LET code == Code(Top) IN
       /\ ~(code.lenCheck /\ Top.ch = <<>>)
       /\ IF code.enter \notin h
          THEN /\ stack' = SetTop([Top EXCEPT !.pc = "body", !.todo = <<>>])
               /\ UNCHANGED <<log, err, status>>
          ELSE \E r \in Results :
               LET o == EnterOutcome(code.respectsPrune, r) IN
               /\ (r # "nil" /\ o # "abort") => Faults < MaxFaults
               /\ log' = Append(log, Event(code.enter, Top, r))
               /\ IF o = "abort"
                  THEN ReturnError(Wrap(CallbackError(Len(log) + 1),
                                        code.enterWrap))
                  ELSE /\ stack' = SetTop([Top EXCEPT
                                 !.pc = "body",
                                 !.todo = IF o = "prune" THEN <<>> ELSE @])
                       /\ UNCHANGED <<err, status>>
    /\ UNCHANGED <<root, h, chan>>

\* if hfunc := h.EnterXxx; hfunc != nil { if err := hfunc(...) ... }
CallEnter ==
    /\ status = "running"
    /\ Top.pc = "enter"
    /\ LET code == Code(Top) IN
       /\ ~(code.lenCheck /\ Top.ch = <<>>)
       /\ IF code.enter \notin h
          THEN /\ stack' = SetTop([Top EXCEPT !.pc = "body"])
               /\ UNCHANGED <<log, err, status>>
          ELSE \E r \in Results :
               LET o == EnterOutcome(code.respectsPrune, r) IN
               /\ (r # "nil" /\ o # "abort") => Faults < MaxFaults
               /\ log' = Append(log, Event(code.enter, Top, r))
               /\ IF o = "abort"
                  THEN ReturnError(Wrap(CallbackError(Len(log) + 1),
                                        code.enterWrap))
                  ELSE /\ stack' = SetTop([Top EXCEPT
                                 !.pc = "body",
                                 !.todo = IF o = "prune" THEN <<>> ELSE @])
                       /\ UNCHANGED <<err, status>>
    /\ UNCHANGED <<root, h, chan>>

\* typch := v.Types(); ch := make(chan model.Definition, len(typch) + 1)
MakeChan ==
    /\ status = "running"
    /\ Top.fn = "visitSchema"
    /\ Top.pc = "body"
    /\ Top.todo # <<>>
    /\ chan.pc = "none"
    /\ chan' = [pc |-> "sending", cap |-> Capacity(Top.node), buf |-> <<>>,
                closed |-> FALSE, tosend |-> SchemaChannel(Top.node)]
    /\ UNCHANGED <<root, h, stack, log, err, status>>

\* ch <- e, for each e of typch and then for v.Query(): the send goes
\* through when the buffer has room, and blocks otherwise (nothing
\* receives from ch before visitDefinitionList is called)
Send ==
    /\ status = "running"
    /\ chan.pc = "sending"
    /\ chan.tosend # <<>>
    /\ Len(chan.buf) < chan.cap
    /\ chan' = [chan EXCEPT !.buf = Append(@, Head(chan.tosend)),
                            !.tosend = Tail(@)]
    /\ UNCHANGED <<root, h, stack, log, err, status>>

\* close(ch)
Close ==
    /\ status = "running"
    /\ chan.pc = "sending"
    /\ chan.tosend = <<>>
    /\ chan' = [chan EXCEPT !.closed = TRUE, !.pc = "produced"]
    /\ UNCHANGED <<root, h, stack, log, err, status>>

\* the next statement of the body: a call of another visitor, or a return
\* of errors.Errorf.  visitSchema calls visitDefinitionList with the channel
\* it produced, and that call receives each definition it visits from it.
CallNext ==
    /\ status = "running"
    /\ Top.pc = "body"
    /\ Top.todo # <<>>
    /\ Top.fn = "visitSchema" => chan.pc = "produced"
    /\ RangesOverChan => chan.buf # <<>>
    /\ LET c0 == Head(Top.todo) IN
       LET c == IF Top.fn = "visitSchema" THEN [c0 EXCEPT !.ch = chan.buf]
                ELSE IF RangesOverChan
                     THEN [c0 EXCEPT !.node = Head(chan.buf)]
                     ELSE c0 IN
       /\ chan' = IF RangesOverChan THEN [chan EXCEPT !.buf = Tail(@)]
                  ELSE chan
       /\ IF c.fn = "Errorf"
          THEN ReturnError(Errorf(c.wrap))
          ELSE /\ stack' = Append(SetTop([Top EXCEPT !.todo = Tail(@)]),
                                  Frame(c))
               /\ UNCHANGED <<err, status>>
    /\ UNCHANGED <<root, h, log>>

\* if hfunc := h.LeaveXxx; hfunc != nil { if err := hfunc(...) ... }
\* return nil
CallLeave ==
    /\ status = "running"
    /\ Top.pc = "body"
    /\ Top.todo = <<>>
    /\ RangesOverChan => (chan.buf = <<>> /\ chan.closed)
    /\ LET code == Code(Top) IN
       IF code.leave \notin h
       THEN ReturnNil /\ log' = log
       ELSE \E r \in Results :
            /\ log' = Append(log, Event(code.leave, Top, r))
            /\ IF LeaveOutcome(r) = "abort"
               THEN ReturnError(Wrap(CallbackError(Len(log) + 1),
                                     code.leaveWrap))
               ELSE ReturnNil
    /\ UNCHANGED <<root, h, chan>>

Next ==
    \/ Visit \/ EmptyList \/ CallEnter \/ CallNext \/ CallLeave
    \/ MakeChan \/ Send \/ Close

Spec == Init /\ [][Next]_vars

\* Visit runs on the goroutine of its caller and every callback returns:
\* a walk that can take a step takes it
FairSpec == Spec /\ WF_vars(Next)


(* ------------------------ reading the callback log --------------------- *)
\* the enter callback of Handler and the leave callback declared for it
CallbackPairs ==
    {<<"EnterSchema", "LeaveSchema">>, <<"EnterDocument", "LeaveDocument">>,
     <<"EnterDefinitionList", "LeaveDefinitionList">>,
     <<"EnterDefinition", "LeaveDefinition">>,
     <<"EnterDirectiveList", "LeaveDirectiveList">>,
     <<"EnterDirective", "LeaveDirective">>,
     <<"EnterOperationDefinition", "LeaveOperationDefinition">>,
     <<"EnterFragmentDefinition", "LeaveFragmentDefinition">>,
     <<"EnterObjectDefinition", "LeaveObjectDefinition">>,
     <<"EnterObjectFieldDefinitionList", "LeaveObjectFieldDefinitionList">>,
     <<"EnterObjectFieldDefinition", "LeaveObjectFieldDefinition">>,
     <<"EnterInterfaceDefinition", "LeaveInterfaceDefinition">>,
     <<"EnterInterfaceFieldDefinition", "LeaveInterfaceFieldDefinition">>,
     <<"EnterEnumDefinition", "LeaveEnumDefinition">>,
     <<"EnterUnionDefinition", "LeaveUnionDefinition">>,
     <<"EnterInputDefinition", "LeaveInputDefinition">>,
     <<"EnterInputFieldDefinitionList", "LeaveInputFieldDefinitionList">>,
     <<"EnterInputFieldDefinition", "LeaveInputFieldDefinition">>,
     <<"EnterSelectionList", "LeaveSelectionList">>,
     <<"EnterSelection", "LeaveSelection">>,
     <<"EnterSelectionField", "LeaveSelectionField">>,
     <<"EnterFragmentSpread", "LeaveFragmentSpread">>,
     <<"EnterInlineFragment", "LeaveInlineFragment">>,
     <<"EnterSchemaQuery", "LeaveSchemaQuery">>}

EnterCallbacks == {p[1] : p \in CallbackPairs}
LeaveCallbacks == {p[2] : p \in CallbackPairs}
LeaveOf(cb) == (CHOOSE p \in CallbackPairs : p[1] = cb)[2]

\* the callbacks of the list groupings; the others are given a node
ListEnterCallbacks ==
    {"EnterDefinitionList", "EnterSelectionList", "EnterDirectiveList",
     "EnterObjectFieldDefinitionList", "EnterInputFieldDefinitionList"}
ListCallbacks == ListEnterCallbacks \cup {LeaveOf(cb) : cb \in ListEnterCallbacks}
NodeEnterCallbacks == EnterCallbacks \ ListEnterCallbacks

IsPrefix(p, q) == Len(p) <= Len(q) /\ SubSeq(q, 1, Len(p)) = p
IsProperPrefix(p, q) == Len(p) < Len(q) /\ SubSeq(q, 1, Len(p)) = p

\* event f is a callback of a child or descendant of the node of event e:
\* of a node below it, or of one of its own lists
Below(e, f) ==
    \/ IsProperPrefix(e.node, f.node)
    \/ f.node = e.node /\ f.cb \in ListCallbacks /\ e.cb \notin ListCallbacks

\* how often callback cb was invoked for node v
Count(cb, v) ==
    Cardinality({i \in DOMAIN log : log[i].cb = cb /\ log[i].node = v})

Done == status = "done"
Succeeded == status = "done" /\ err = NoError
AllNil == \A i \in DOMAIN log : log[i].res = "nil"

(* ------------------------------ the claims ----------------------------- *)

\* C1: for every node of every kind, if its enter callback returns an error
\* whose Prune() is true, no callback is invoked for any child or
\* descendant of the node, and the node's registered leave callback is
\* invoked exactly once (it is the next thing Visit does, so it has
\* happened by the time Visit returns).
C1_PruneSkipsChildrenAndLeaves ==
    \A i \in DOMAIN log :
       (log[i].cb \in NodeEnterCallbacks /\ log[i].res = "PruneTrue") =>
          /\ \A j \in (i + 1)..Len(log) : ~Below(log[i], log[j])
          /\ Count(LeaveOf(log[i].cb), log[i].node) <= 1
          /\ (Done /\ LeaveOf(log[i].cb) \in h) =>
                Count(LeaveOf(log[i].cb), log[i].node) = 1

\* C2: if an enter callback returns an error that does not implement
\* Pruner, no callback is invoked afterwards and Visit returns an error
\* whose cause is that error.
C2_FatalEnterAborts ==
    \A i \in DOMAIN log :
       (log[i].cb \in EnterCallbacks /\ log[i].res = "Fatal") =>
          /\ i = Len(log)
          /\ Done
          /\ stack = <<>>
          /\ err.cause = "callback" /\ err.at = i

\* C2 witness: an enter callback deep in the tree returned a fatal error
\* after other callbacks had been invoked, and Visit has returned
C2_Witness ==
    /\ Done
    /\ Len(log) > 3
    /\ log[Len(log)].cb = "EnterSelectionField"
    /\ log[Len(log)].res = "Fatal"
    /\ Len(log[Len(log)].node) = 2


(* ------------------- the tree as the data model gives it --------------- *)
\* the child lists of a node that a walk descends into, by kind
DescentLists(kind) ==
    CASE kind = "Document" -> <<"definitions">>
      [] kind = "Schema" -> <<"types", "query">>
      [] kind = "OperationDefinition" -> <<"selections">>
      [] kind \in {"FragmentDefinition", "SelectionField", "InlineFragment"} ->
           <<"directives", "selections">>
      [] kind \in {"ObjectDefinition", "InterfaceDefinition",
                   "InputDefinition"} -> <<"fields">>
      [] OTHER -> <<>>

\* the elements of list name of node v, in insertion order
Elements(v, name) ==
    IF name = "query" THEN <<v \o <<<<"query", 1>>>>>>
    ELSE [i \in 1..Len(Node(v)[name]) |-> v \o <<<<name, i>>>>]

\* the nodes at and below v that a walk descends into
RECURSIVE Reach(_)
Reach(v) ==
    {v} \cup UNION {UNION {Reach(c) : c \in Range(Elements(v, nm))} :
                       nm \in Range(DescentLists(Node(v).kind))}

\* the list groupings of a node of a kind that have list callbacks: the
\* enter callback of the grouping and the lists that make it up
ListGroups(kind) ==
    CASE kind = "Document" ->
           {[enter |-> "EnterDefinitionList", lists |-> <<"definitions">>]}
      [] kind = "Schema" ->
           {[enter |-> "EnterDefinitionList", lists |-> <<"types", "query">>]}
      [] kind = "OperationDefinition" ->
           {[enter |-> "EnterSelectionList", lists |-> <<"selections">>]}
      [] kind \in {"FragmentDefinition", "SelectionField", "InlineFragment"} ->
           {[enter |-> "EnterDirectiveList", lists |-> <<"directives">>],
            [enter |-> "EnterSelectionList", lists |-> <<"selections">>]}
      [] kind = "ObjectDefinition" ->
           {[enter |-> "EnterObjectFieldDefinitionList", lists |-> <<"fields">>]}
      [] kind = "InputDefinition" ->
           {[enter |-> "EnterInputFieldDefinitionList", lists |-> <<"fields">>]}
      [] OTHER -> {}

\* the elements of a list grouping of node v
RECURSIVE GroupElements(_, _)
GroupElements(v, lists) ==
    IF lists = <<>> THEN <<>>
    ELSE Elements(v, Head(lists)) \o GroupElements(v, Tail(lists))

\* the list grouping whose list callback is logged in event e
GroupOf(e) ==
    CHOOSE g \in ListGroups(Node(e.node).kind) :
       e.cb \in {g.enter, LeaveOf(g.enter)}

\* the position in the log of the only invocation of cb for v
Pos(cb, v) == CHOOSE i \in DOMAIN log : log[i].cb = cb /\ log[i].node = v

\* the nodes callback cb was invoked for, in the order of the invocations
NodesOf(cb) ==
    LET Is(e) == e.cb = cb
        evs == SelectSeq(log, Is)
    IN [i \in DOMAIN evs |-> evs[i].node]

\* a walk with the full handler table in which every callback returned nil
\* has returned success
CleanWalk == Succeeded /\ AllNil /\ h = AllCallbacks

\* C3: for every list grouping with list callbacks (Definition, Selection,
\* Directive, ObjectFieldDefinition, InputFieldDefinition) that a walk
\* reaches, the list-level enter and leave callbacks are invoked if and
\* only if the list is not empty.
C3_ListCallbacksIffNonEmpty ==
    /\ \A i \in DOMAIN log :
          log[i].cb \in ListCallbacks =>
             GroupElements(log[i].node, GroupOf(log[i]).lists) # <<>>
    /\ CleanWalk =>
          \A v \in Reach(<<>>) : \A g \in ListGroups(Node(v).kind) :
             /\ (GroupElements(v, g.lists) # <<>>) <=> (Count(g.enter, v) > 0)
             /\ (GroupElements(v, g.lists) # <<>>)
                   <=> (Count(LeaveOf(g.enter), v) > 0)

\* C4: in a walk in which no callback fails, the EnterXList callback of
\* every non-empty list is invoked exactly once, before any callback of an
\* element, and its LeaveXList callback exactly once, after every callback
\* of an element.
C4_ListCallbacksBracketOnce ==
    CleanWalk =>
       \A v \in Reach(<<>>) : \A g \in ListGroups(Node(v).kind) :
          GroupElements(v, g.lists) # <<>> =>
             /\ Count(g.enter, v) = 1
             /\ Count(LeaveOf(g.enter), v) = 1
             /\ \A k \in DOMAIN log :
                   (\E c \in Range(GroupElements(v, g.lists)) :
                       IsPrefix(c, log[k].node)) =>
                      /\ Pos(g.enter, v) < k
                      /\ k < Pos(LeaveOf(g.enter), v)

\* C5: visiting a Schema (no callback failing) visits every ObjectDefinition
\* of the other types in insertion order and then the query root last, each
\* through the Definition and ObjectDefinition callbacks, all inside one
\* Definition-list bracket.
C5_SchemaTypesThenQuery ==
    (CleanWalk /\ root.kind = "Schema") =>
       LET expected == Elements(<<>>, "types") \o Elements(<<>>, "query") IN
       /\ NodesOf("EnterDefinition") = expected
       /\ NodesOf("EnterObjectDefinition") = expected
       /\ NodesOf("LeaveObjectDefinition") = expected
       /\ NodesOf("LeaveDefinition") = expected
       /\ NodesOf("EnterDefinitionList") = <<<<>>>>
       /\ NodesOf("LeaveDefinitionList") = <<<<>>>>
       /\ \A k \in DOMAIN log :
             log[k].node # <<>> =>
                /\ Pos("EnterDefinitionList", <<>>) < k
                /\ k < Pos("LeaveDefinitionList", <<>>)

\* C5 witness: a Schema with two other types has been walked to the end
C5_Witness ==
    /\ CleanWalk
    /\ root.kind = "Schema"
    /\ Len(root.types) = 2
    /\ Count("LeaveObjectDefinition", <<<<"query", 1>>>>) = 1

\* the enter callbacks invoked for a node of a kind, the generic one first
EntersOf(kind) ==
    CASE kind = "OperationDefinition" ->
           {"EnterDefinition", "EnterOperationDefinition"}
      [] kind = "FragmentDefinition" ->
           {"EnterDefinition", "EnterFragmentDefinition"}
      [] kind = "ObjectDefinition" ->
           {"EnterDefinition", "EnterObjectDefinition"}
      [] kind = "InterfaceDefinition" ->
           {"EnterDefinition", "EnterInterfaceDefinition"}
      [] kind = "EnumDefinition" -> {"EnterDefinition", "EnterEnumDefinition"}
      [] kind = "UnionDefinition" -> {"EnterDefinition", "EnterUnionDefinition"}
      [] kind = "InputDefinition" -> {"EnterDefinition", "EnterInputDefinition"}
      [] kind = "SelectionField" -> {"EnterSelection", "EnterSelectionField"}
      [] kind = "FragmentSpread" -> {"EnterSelection", "EnterFragmentSpread"}
      [] kind = "InlineFragment" -> {"EnterSelection", "EnterInlineFragment"}
      [] kind = "Directive" -> {"EnterDirective"}
      [] kind = "ObjectFieldDefinition" -> {"EnterObjectFieldDefinition"}
      [] kind = "InterfaceFieldDefinition" -> {"EnterInterfaceFieldDefinition"}
      [] kind = "InputFieldDefinition" -> {"EnterInputFieldDefinition"}
      [] kind = "Document" -> {"EnterDocument"}
      [] kind = "Schema" -> {"EnterSchema"}
      [] OTHER -> {}

\* C6: for every ordered child sequence a walk descends into (no prune, no
\* error), each element is entered exactly once, and the elements are
\* entered in the order in which they were added.
C6_ElementsEnteredInOrder ==
    CleanWalk =>
       \A v \in Reach(<<>>) : \A nm \in Range(DescentLists(Node(v).kind)) :
          LET els == Elements(v, nm) IN
          /\ \A i \in DOMAIN els : \A cb \in EntersOf(Node(els[i]).kind) :
                Count(cb, els[i]) = 1
          /\ \A i, j \in DOMAIN els :
                i < j =>
                   \A ci \in EntersOf(Node(els[i]).kind) :
                   \A cj \in EntersOf(Node(els[j]).kind) :
                      Pos(ci, els[i]) < Pos(cj, els[j])

\* C6 witness: a selection list of two elements whose first element holds a
\* selection list of two elements has been walked to the end
C6_Witness ==
    /\ CleanWalk
    /\ root.kind = "Document"
    /\ Len(root.definitions) = 2
    /\ root.definitions[1].kind = "OperationDefinition"
    /\ Len(root.definitions[1].selections) = 2
    /\ root.definitions[1].selections[1].kind = "SelectionField"
    /\ Len(root.definitions[1].selections[1].selections) = 2
    /\ Count("EnterSelectionField",
             <<<<"definitions", 1>>, <<"selections", 1>>, <<"selections", 2>>>>) = 1


\* The node-level callbacks read as brackets: the enter events that have no
\* leave yet after the first n log entries, outermost first, and whether
\* every entry so far was properly nested (a leave closes the innermost
\* open enter, of the same node; every callback is for a node at or below
\* the innermost open node).
RECURSIVE Open(_)
Open(n) ==
    IF n = 0 THEN [ok |-> TRUE, open |-> <<>>]
    ELSE LET s == Open(n - 1)
             e == log[n]
             inside == s.open = <<>>
                       \/ IsPrefix(s.open[Len(s.open)].node, e.node)
         IN IF ~s.ok THEN s
            ELSE IF e.cb \in ListCallbacks
                 THEN [ok |-> inside, open |-> s.open]
            ELSE IF e.cb \in EnterCallbacks
                 THEN [ok |-> inside, open |-> Append(s.open, e)]
            ELSE [ok |-> /\ s.open # <<>>
                         /\ s.open[Len(s.open)].node = e.node
                         /\ e.cb = LeaveOf(s.open[Len(s.open)].cb),
                  open |-> SubSeq(s.open, 1, Len(s.open) - 1)]

\* the active calls of node visitors whose registered enter callback has
\* been invoked: the path from the root to the node being visited
Entered ==
    LET Is(f) == /\ f.pc = "body"
                 /\ LET cb == Code(f).enter
                    IN cb \in h /\ cb \in NodeEnterCallbacks
    IN SelectSeq(stack, Is)

\* C7: node-level enter and leave invocations are well nested: the nodes
\* entered and not yet left are exactly the path from the root to the node
\* being visited, every callback between enter(N) and leave(N) belongs to
\* the subtree of N, and in a walk that returns success every enter is
\* matched by one leave of the same node.
C7_EnterLeaveWellNested ==
    LET s == Open(Len(log)) IN
    /\ s.ok
    /\ status = "running" =>
          LET path == Entered IN
          /\ Len(s.open) = Len(path)
          /\ \A i \in DOMAIN s.open :
                /\ s.open[i].node = path[i].node
                /\ s.open[i].fn = path[i].fn
    /\ Succeeded => s.open = <<>>

\* C7 witness: a walk is four entered nodes deep with some nodes already
\* entered and left
C7_Witness ==
    /\ status = "running"
    /\ Len(Open(Len(log)).open) >= 4
    /\ \E i \in DOMAIN log : log[i].cb = "LeaveSelectionField"

\* C8: Visit called with a root that is neither a Document nor a Schema
\* returns an invalid-input-type error at once and invokes no callback.
C8_InvalidRootRejected ==
    root.kind \notin {"Document", "Schema"} =>
       /\ log = <<>>
       /\ stack = <<>>
       /\ status \in {"start", "done"}
       /\ Done => err = Errorf("invalid input type for visit")

\* C8 witness: Visit has returned for such a root
C8_Witness == Done /\ root = OtherRoot /\ h = AllCallbacks

\* the Document of the logging scenario: one query operation with one
\* field ("user") that holds one field ("id")
ScenarioDocument ==
    Document(<<OperationDefinition(<<>>, <<>>,
        <<SelectionField(<<>>, <<SelectionField(<<>>, <<>>)>>)>>)>>)

ScenarioLog ==
    LET op == <<<<"definitions", 1>>>>
        user == op \o <<<<"selections", 1>>>>
        id == user \o <<<<"selections", 1>>>>
    IN << <<"EnterOperationDefinition", op>>,
          <<"EnterSelectionList", op>>,
          <<"EnterSelection", user>>,
          <<"EnterSelectionField", user>>,
          <<"EnterSelectionList", user>>,
          <<"EnterSelection", id>>,
          <<"EnterSelectionField", id>>,
          <<"LeaveSelectionField", id>>,
          <<"LeaveSelection", id>>,
          <<"LeaveSelectionList", user>>,
          <<"LeaveSelectionField", user>>,
          <<"LeaveSelection", user>>,
          <<"LeaveSelectionList", op>>,
          <<"LeaveOperationDefinition", op>> >>

\* C9: walking the scenario Document with logging callbacks for
\* OperationDefinition, SelectionList, Selection and SelectionField yields
\* exactly the scenario log.
C9_ScenarioLog ==
    (root = ScenarioDocument /\ h = LoggingCallbacks /\ AllNil) =>
       /\ Len(log) <= Len(ScenarioLog)
       /\ \A i \in DOMAIN log : <<log[i].cb, log[i].node>> = ScenarioLog[i]
       /\ Done => (Len(log) = Len(ScenarioLog) /\ err = NoError)

\* C9 witness: the scenario walk has returned
C9_Witness ==
    root = ScenarioDocument /\ h = LoggingCallbacks /\ AllNil /\ Done

\* the siblings added after node v to the list that holds it
LaterSiblings(v) ==
    LET parent == SubSeq(v, 1, Len(v) - 1)
        step == v[Len(v)]
    IN IF v = <<>> \/ step[1] = "query" THEN {}
       ELSE {parent \o <<<<step[1], i>>>> :
                i \in (step[2] + 1)..Len(Node(parent)[step[1]])}
            \cup (IF step[1] = "types" THEN {parent \o <<<<"query", 1>>>>}
                  ELSE {})

\* C10: a prune signal never stops the walk: when the enter callback of a
\* node returns a prune signal and no callback returns a fatal error, Visit
\* returns success, every later sibling of the node is visited and the
\* leave callbacks of the node and of every enclosing node are invoked.
C10_PruneNeverStopsWalk ==
    (/\ Done
     /\ h = AllCallbacks
     /\ \A k \in DOMAIN log :
           \/ log[k].res = "nil"
           \/ log[k].res = "PruneTrue" /\ log[k].cb \in NodeEnterCallbacks
     /\ err.cause \in {"nil", "callback"}) =>
       \A i \in DOMAIN log :
             log[i].res = "PruneTrue" =>
                /\ err = NoError
                /\ \A sib \in LaterSiblings(log[i].node) :
                      \E k \in (i + 1)..Len(log) : log[k].node = sib
                /\ \A k \in 1..i :
                      (log[k].cb \in NodeEnterCallbacks
                       /\ IsPrefix(log[k].node, log[i].node)) =>
                         Count(LeaveOf(log[k].cb), log[k].node) = 1

\* C11: if a leave callback (of a node or of a list) returns an error,
\* whether or not the error implements Pruner, no callback is invoked
\* afterwards and Visit returns an error whose cause is that error.
C11_LeaveErrorAborts ==
    \A i \in DOMAIN log :
       (log[i].cb \in LeaveCallbacks /\ log[i].res # "nil") =>
          /\ i = Len(log)
          /\ Done
          /\ stack = <<>>
          /\ err.cause = "callback" /\ err.at = i

\* C11 witness: a leave callback of a node and a leave callback of a list
\* each returned an error that implements Pruner, deep in the tree, and
\* Visit has returned
C11_Witness ==
    /\ Done
    /\ Len(log) > 5
    /\ log[Len(log)].cb \in {"LeaveSelectionField", "LeaveSelectionList"}
    /\ log[Len(log)].res = "PruneTrue"

\* the visitors entered on the way from the visitor of a node of kind
\* parent to the visitor of the variant of an element of its list name:
\* the list visitor, the generic visitor and the variant visitor
StepVisitors(parent, name) ==
    CASE name \in {"definitions", "types", "query", "selections"} -> 3
      [] name = "directives" -> 2
      [] name = "fields" -> IF parent = "InterfaceDefinition" THEN 1 ELSE 2

\* the visitors active while the visitor of the variant of node v runs
RECURSIVE NodeDepth(_)
NodeDepth(v) ==
    IF v = <<>> THEN 1
    ELSE LET parent == SubSeq(v, 1, Len(v) - 1)
         IN NodeDepth(parent)
            + StepVisitors(Node(parent).kind, v[Len(v)][1])

\* the visiting steps that enclose the callback logged in event e, its own
\* visitor included: a list visitor runs inside the visitor of the node
\* that owns the list, a generic visitor around the one of the variant
VisitingSteps(e) ==
    NodeDepth(e.node)
    + (CASE e.cb \in ListCallbacks -> 1
         [] e.fn \in {"visitDefinition", "visitSelection"} -> -1
         [] OTHER -> 0)

\* the messages a caller wraps the error of a failed call with
StageMessages ==
    {"failed to visit schema component list",
     "failed to visit definition list",
     "failed to visit document definition",
     "failed to visit operation definition",
     "failed to visit fragment definition",
     "failed to visit object type definition",
     "failed to visit enum definition",
     "failed to visit union definition",
     "failed to visit input definition",
     "failed to visit selection list",
     "failed to visit selection",
     "failed to visit selection field",
     "failed to visit fragment spread",
     "failed to visit inline fragment",
     "failed to visit directive list",
     "failed to visit directive",
     "failed to visit object definition list",
     "failed to visit object field definition",
     "failed to visit interface field definition",
     "failed to visit input field definition list",
     "failed to visit input field definition"}

\* the tree holds only values of the declared variants
WellFormed ==
    /\ root.kind \in {"Document", "Schema"}
    /\ \A v \in Reach(<<>>) :
          Node(v).kind \notin {"OtherDefinition", "OtherSelection"}

\* C12: when a callback returns a fatal error, it is the only callback that
\* fails in the walk, and the error Visit returns has it as its cause,
\* wrapped with one stage message per enclosing visiting step from the
\* failing callback to the root, innermost first; a walk of a well-formed
\* tree in which no callback fails returns no error.
C12_ErrorWrappedPerStep ==
    /\ Cardinality({i \in DOMAIN log : log[i].res = "Fatal"}) <= 1
    /\ \A i \in DOMAIN log :
          log[i].res = "Fatal" =>
             /\ Done
             /\ i = Len(log)
             /\ err.cause = "callback" /\ err.at = i
             /\ Len(err.crumbs) = VisitingSteps(log[i])
             /\ err.crumbs[1] \notin StageMessages
             /\ \A k \in 2..Len(err.crumbs) : err.crumbs[k] \in StageMessages
             /\ Len(err.crumbs) > 1 =>
                   err.crumbs[Len(err.crumbs)] \in
                      {"failed to visit definition list",
                       "failed to visit schema component list"}
    /\ (Done /\ AllNil /\ WellFormed) => err = NoError

\* C12 witness: a callback seven visiting steps deep returned a fatal error
\* and Visit has returned it
C12_Witness ==
    /\ Done
    /\ Len(log) > 0
    /\ log[Len(log)].res = "Fatal"
    /\ log[Len(log)].fn = "visitSelectionField"
    /\ Len(log[Len(log)].node) = 2
    /\ Len(err.crumbs) = 7

\* The callbacks call c invokes, in order, each with the node it is invoked
\* for, when every field of Handler is set and every callback returns nil.
RECURSIVE FullWalk(_), FullWalkAll(_)
FullWalk(c) ==
    LET code == Code(c) IN
    IF code.lenCheck /\ c.ch = <<>> THEN <<>>
    ELSE <<<<code.enter, c.node>>>> \o FullWalkAll(code.body)
         \o <<<<code.leave, c.node>>>>
FullWalkAll(cs) ==
    IF cs = <<>> THEN <<>> ELSE FullWalk(Head(cs)) \o FullWalkAll(Tail(cs))

\* the invocations of a sequence that are of callbacks of table hh
Restricted(invocations, hh) ==
    LET Is(x) == x[1] \in hh IN SelectSeq(invocations, Is)

\* the callbacks invoked so far, each with the node it was invoked for
Invocations == [i \in DOMAIN log |-> <<log[i].cb, log[i].node>>]

\* C13: a callback that is not registered behaves like a registered one
\* that returns nil: when every registered callback returns nil, the
\* invocations of the walk are those of the walk with the full table,
\* restricted to the registered callbacks, and Visit returns nil (so it
\* does with the empty table).
C13_NilCallbackIsNoOp ==
    (Done /\ AllNil /\ WellFormed) =>
       /\ err = NoError
       /\ Invocations = Restricted(FullWalk(RootDispatch(root)), h)

\* C13 witness: a walk with a partial table over a tree that has nodes with
\* and without registered callbacks has returned, and so has a walk with
\* the empty table
C13_Witness ==
    /\ Done /\ AllNil /\ WellFormed
    /\ h = LoggingCallbacks
    /\ root.kind = "Document"
    /\ Len(root.definitions) = 2
    /\ root.definitions[1].kind = "OperationDefinition"
    /\ Len(root.definitions[1].selections) = 2
    /\ root.definitions[1].selections[1].kind = "InlineFragment"
    /\ Len(root.definitions[1].selections[1].directives) = 1
    /\ Len(log) = 10

\* the callbacks invoked for node v and for what is below it, in order
CallbacksAtOrBelow(v) ==
    LET Is(e) == IsPrefix(v, e.node) IN
    LET es == SelectSeq(log, Is) IN [i \in DOMAIN es |-> es[i].cb]

\* C14: every callback invoked for an OperationDefinition or below it is
\* the definition's or the operation's own enter or leave, a callback of its
\* selection list, or a callback of a node under its selections; no callback
\* is invoked for a VariableDefinition or for the operation's directives,
\* and the callbacks of an operation with one childless field are the same
\* ten whatever variables and directives it declares.
C14_OnlySelectionsOfOperation ==
    /\ \A j \in DOMAIN log :
          LET n == log[j].node IN
          /\ \A d \in DOMAIN n : n[d][1] # "variables"
          /\ (/\ n # <<>>
              /\ n[1][1] = "definitions"
              /\ root.definitions[n[1][2]].kind = "OperationDefinition") =>
                IF Len(n) = 1
                THEN log[j].cb \in
                        {"EnterDefinition", "LeaveDefinition",
                         "EnterOperationDefinition",
                         "LeaveOperationDefinition",
                         "EnterSelectionList", "LeaveSelectionList"}
                ELSE n[2][1] = "selections"
    /\ (CleanWalk /\ root.kind = "Document" /\ root.definitions # <<>>) =>
          LET op == root.definitions[1] IN
          (op.kind = "OperationDefinition" /\ op.selections = <<LeafField>>)
             => CallbacksAtOrBelow(<<<<"definitions", 1>>>>) =
                   <<"EnterDefinition", "EnterOperationDefinition",
                     "EnterSelectionList", "EnterSelection",
                     "EnterSelectionField", "LeaveSelectionField",
                     "LeaveSelection", "LeaveSelectionList",
                     "LeaveOperationDefinition", "LeaveDefinition">>

\* C14 witness: the walk of an operation that declares variables and
\* directives has returned
C14_Witness ==
    /\ CleanWalk
    /\ root.kind = "Document"
    /\ root.definitions # <<>>
    /\ root.definitions[1].kind = "OperationDefinition"
    /\ Len(root.definitions[1].variables) = MaxVariables
    /\ root.definitions[1].directives # <<>>
    /\ Len(CallbacksAtOrBelow(<<<<"definitions", 1>>>>)) = 10

\* C15: whatever error EnterDirective returns, with Prune() true or false
\* or without Prune, it is the last callback invoked, LeaveDirective is not
\* invoked for that directive, and Visit returns an error caused by it.
C15_EnterDirectiveErrorAborts ==
    \A i \in DOMAIN log :
       (log[i].cb = "EnterDirective" /\ log[i].res # "nil") =>
          /\ i = Len(log)
          /\ Done /\ stack = <<>>
          /\ err.cause = "callback" /\ err.at = i
          /\ Count("LeaveDirective", log[i].node) = 0

\* C15 witness: EnterDirective returned an error with Prune() = true for a
\* directive of a field, with LeaveDirective registered, and Visit returned
C15_Witness ==
    /\ Done
    /\ "LeaveDirective" \in h
    /\ Len(log) > 5
    /\ log[Len(log)].cb = "EnterDirective"
    /\ log[Len(log)].res = "PruneTrue"
    /\ err # NoError

\* the visitors the type switches of visitDefinition and visitSelection
\* dispatch to
DefinitionVariantVisitors ==
    {"visitOperationDefinition", "visitFragmentDefinition",
     "visitObjectDefinition", "visitInterfaceDefinition",
     "visitEnumDefinition", "visitUnionDefinition", "visitInputDefinition"}
SelectionVariantVisitors ==
    {"visitSelectionField", "visitFragmentSpread", "visitInlineFragment"}
VariantVisitors == DefinitionVariantVisitors \cup SelectionVariantVisitors

\* the generic enter callback around the callbacks of variant visitor fn
GenericEnter(fn) ==
    IF fn \in DefinitionVariantVisitors THEN "EnterDefinition"
    ELSE "EnterSelection"

\* C16: the variant-specific enter of an element directly follows the
\* generic enter of the same element, which did not ask to prune; the
\* generic leave directly follows a variant-specific leave that returned
\* nil; after a generic enter that returned an error with Prune() = true no
\* variant-specific callback is invoked for the element and the generic
\* leave is the next callback.  (Each part for registered callbacks.)
C16_GenericAroundVariant ==
    \A i \in DOMAIN log :
       LET e == log[i] IN
       /\ (e.fn \in VariantVisitors /\ e.cb \in EnterCallbacks
           /\ GenericEnter(e.fn) \in h) =>
             /\ i > 1
             /\ log[i - 1].cb = GenericEnter(e.fn)
             /\ log[i - 1].node = e.node
             /\ log[i - 1].res # "PruneTrue"
       /\ (e.fn \in VariantVisitors /\ e.cb \in LeaveCallbacks
           /\ e.res = "nil" /\ LeaveOf(GenericEnter(e.fn)) \in h) =>
             /\ Done => i < Len(log)
             /\ i < Len(log) =>
                  /\ log[i + 1].cb = LeaveOf(GenericEnter(e.fn))
                  /\ log[i + 1].node = e.node
       /\ (e.cb \in {"EnterDefinition", "EnterSelection"}
           /\ e.res = "PruneTrue") =>
             /\ \A k \in DOMAIN log :
                   ~(log[k].node = e.node /\ log[k].fn \in VariantVisitors)
             /\ LeaveOf(e.cb) \in h =>
                  /\ Done => i < Len(log)
                  /\ i < Len(log) =>
                       /\ log[i + 1].cb = LeaveOf(e.cb)
                       /\ log[i + 1].node = e.node

\* C16 witness: the first definition was pruned by EnterDefinition, the
\* second was visited with its variant-specific callbacks, and Visit
\* returned nil
C16_Witness ==
    /\ Succeeded
    /\ h = AllCallbacks
    /\ Len(log) = 10
    /\ log[3].cb = "EnterDefinition" /\ log[3].res = "PruneTrue"
    /\ log[4].cb = "LeaveDefinition"
    /\ log[5].cb = "EnterDefinition"
    /\ log[6].cb = "EnterEnumDefinition"
    /\ log[7].cb = "LeaveEnumDefinition"
    /\ log[8].cb = "LeaveDefinition"

\* C17: every walk returns, and stays returned (<>[]Done); once Visit has
\* returned, no callback is invoked and nothing is left on the call stack;
\* the error returned is nil, or the error of the dispatch of a type
\* switch, or the error of the last callback invoked, which is the only
\* callback whose error made a visitor return.
C17_WalkTerminates ==
    /\ <>[]Done
    /\ [][Done => (log' = log /\ err' = err)]_vars
    /\ [](Done => /\ stack = <<>>
                  /\ err.cause = "callback" =>
                        /\ err.at = Len(log)
                        /\ log[Len(log)].res # "nil")

\* C17 witness: a walk that invoked many callbacks has returned nil
C17_Witness ==
    /\ Succeeded
    /\ Len(log) >= 20

\* the child list of node v that event e belongs to: "directives" or
\* "selections" for a callback of that list of v or of a node under it,
\* "none" for any other event
SideOf(e, v) ==
    IF ~IsPrefix(v, e.node) THEN "none"
    ELSE IF Len(e.node) > Len(v) THEN e.node[Len(v) + 1][1]
    ELSE IF e.fn = "visitDirectiveList" THEN "directives"
    ELSE IF e.fn = "visitSelectionList" THEN "selections"
    ELSE "none"

\* C18: no callback of the directive list of a node (the list's enter and
\* leave, a directive's enter and leave) is invoked after a callback of the
\* node's selection list or of anything under it; and when the selection
\* list of a node is entered in a walk where every callback is registered
\* and returned nil, the directive list has been left and every directive
\* of it has been left once.
C18_DirectivesBeforeSelections ==
    log # <<>> =>
       LET k == Len(log) IN
       LET n == log[k].node IN
       /\ \A d \in 0..Len(n) :
             LET v == SubSeq(n, 1, d) IN
             SideOf(log[k], v) = "directives" =>
                \A j \in 1..(k - 1) : SideOf(log[j], v) # "selections"
       /\ (/\ log[k].cb = "EnterSelectionList"
           /\ AllNil /\ h = AllCallbacks
           /\ Node(n).kind \in {"FragmentDefinition", "SelectionField",
                                "InlineFragment"}
           /\ Node(n).directives # <<>>) =>
             /\ Count("EnterDirectiveList", n) = 1
             /\ Count("LeaveDirectiveList", n) = 1
             /\ \A i \in DOMAIN Node(n).directives :
                   /\ Count("EnterDirective", n \o <<<<"directives", i>>>>) = 1
                   /\ Count("LeaveDirective", n \o <<<<"directives", i>>>>) = 1

\* C18 witness: the selection list of an inline fragment that has
\* directives and selections is being entered after its directive list
C18_Witness ==
    /\ Len(log) > 8
    /\ log[Len(log)].cb = "EnterSelectionList"
    /\ log[Len(log) - 1].cb = "LeaveDirectiveList"
    /\ log[Len(log) - 1].node = log[Len(log)].node
    /\ Node(log[Len(log)].node).kind = "InlineFragment"

\* the visitors of the kinds whose children are not visited
LeafVisitors ==
    {"visitEnumDefinition", "visitUnionDefinition", "visitFragmentSpread",
     "visitObjectFieldDefinition", "visitInterfaceFieldDefinition",
     "visitInputFieldDefinition", "visitDirective"}
LeafKinds ==
    {"EnumDefinition", "UnionDefinition", "FragmentSpread",
     "ObjectFieldDefinition", "InterfaceFieldDefinition",
     "InputFieldDefinition", "Directive"}

\* C19: when the enter callback of a node of a leaf kind returns nil, the
\* node's leave callback (if registered) is the next callback invoked, and
\* Visit does not return before; the only callbacks ever invoked for a
\* node of a leaf kind are its own and those of visitDefinition or
\* visitSelection around it, and none is invoked for a node below one (the
\* directives of a fragment spread, the arguments of a directive or of an
\* object field, the members of a union, the elements of an enum).
C19_LeafKindsHaveNoChildren ==
    /\ \A i \in DOMAIN log :
          (log[i].fn \in LeafVisitors /\ log[i].cb \in EnterCallbacks
           /\ log[i].res = "nil" /\ LeaveOf(log[i].cb) \in h) =>
             /\ Done => i < Len(log)
             /\ i < Len(log) =>
                  /\ log[i + 1].cb = LeaveOf(log[i].cb)
                  /\ log[i + 1].node = log[i].node
    /\ log # <<>> =>
          LET e == log[Len(log)] IN
          /\ \A d \in 0..(Len(e.node) - 1) :
                Node(SubSeq(e.node, 1, d)).kind \notin LeafKinds
          /\ Node(e.node).kind \in LeafKinds =>
                e.fn \in LeafVisitors \cup {"visitDefinition", "visitSelection"}

\* C19 witness: a fragment spread that has a directive was entered and
\* left, and so was an enum definition, and Visit returned nil
C19_Witness ==
    /\ CleanWalk
    /\ \E i \in DOMAIN log :
          /\ log[i].cb = "EnterFragmentSpread"
          /\ Node(log[i].node).directives # <<>>
          /\ log[i + 1].cb = "LeaveFragmentSpread"
    /\ \E i \in DOMAIN log :
          /\ log[i].cb = "EnterEnumDefinition"
          /\ Node(log[i].node).elements # <<>>

\* the lists whose elements list visitor fn ranges over
ListSteps(fn) ==
    CASE fn = "visitDefinitionList" -> {"definitions", "types", "query"}
      [] fn = "visitSelectionList" -> {"selections"}
      [] fn = "visitDirectiveList" -> {"directives"}
      [] OTHER -> {"fields"}

\* C20: when a list-level enter callback returns an error whose Prune() is
\* true, no callback is invoked afterwards for an element of the list or
\* for anything below one, and Visit does not return that error.
C20_ListEnterPruneContinues ==
    \A i \in DOMAIN log :
       (log[i].cb \in ListEnterCallbacks /\ log[i].res = "PruneTrue") =>
          /\ \A j \in (i + 1)..Len(log) :
                ~(/\ IsProperPrefix(log[i].node, log[j].node)
                  /\ log[j].node[Len(log[i].node) + 1][1]
                        \in ListSteps(log[i].fn))
          /\ ~(Done /\ err.cause = "callback" /\ err.at = i)

\* the visitors that test isPruneError on the result of their enter
\* callback, for the kinds Schema, Document, Definition,
\* OperationDefinition, FragmentDefinition, Selection, SelectionField,
\* InlineFragment, ObjectDefinition, InterfaceDefinition, InputDefinition
PruneHonoringVisitors ==
    {"visitSchema", "visitDocument", "visitDefinition",
     "visitOperationDefinition", "visitFragmentDefinition",
     "visitSelection", "visitSelectionField", "visitInlineFragment",
     "visitObjectDefinition", "visitInterfaceDefinition",
     "visitInputDefinition"}

\* C22: when the enter callback of a prune-honoring kind returns an error
\* that implements Pruner with Prune() = false, Visit does not return that
\* error; the leave callback of the node is invoked once by the time a
\* successful walk returns; and when no other callback returns an error,
\* the walk invokes exactly the callbacks of the walk in which the enter
\* callback returned nil, and returns nil.
C22_PruneFalseIsDiscarded ==
    \A i \in DOMAIN log :
       (/\ log[i].cb \in EnterCallbacks
        /\ log[i].fn \in PruneHonoringVisitors
        /\ log[i].res = "PruneFalse") =>
          /\ ~(err.cause = "callback" /\ err.at = i)
          /\ (Succeeded /\ LeaveOf(log[i].cb) \in h) =>
                Count(LeaveOf(log[i].cb), log[i].node) = 1
          /\ (/\ Done /\ WellFormed
              /\ \A j \in DOMAIN log : j # i => log[j].res = "nil") =>
                /\ err = NoError
                /\ Invocations = Restricted(FullWalk(RootDispatch(root)), h)

\* C22 witness: EnterOperationDefinition returned an error with
\* Prune() = false for an operation that has selections, and Visit returned
C22_Witness ==
    /\ Succeeded
    /\ Len(log) >= 12
    /\ \E i \in DOMAIN log :
          /\ log[i].cb = "EnterOperationDefinition"
          /\ log[i].res = "PruneFalse"
          /\ log[i + 1].cb = "EnterSelectionList"

\* the query root of a schema, as a node of the tree
QueryRoot == <<<<"query", 1>>>>

\* C23: EnterSchemaQuery and LeaveSchemaQuery are never invoked and
\* visitSchemaQuery is never called; every callback invoked for the query
\* root of a schema is one of visitDefinition, of visitObjectDefinition or
\* of the field list of the object, and in a walk where every callback is
\* registered and returns nil the query root is entered by EnterDefinition
\* then EnterObjectDefinition and left by LeaveObjectDefinition then
\* LeaveDefinition.
C23_SchemaQueryCallbacksNeverInvoked ==
    /\ \A k \in DOMAIN stack : stack[k].fn # "visitSchemaQuery"
    /\ \A i \in DOMAIN log :
          /\ log[i].cb \notin {"EnterSchemaQuery", "LeaveSchemaQuery"}
          /\ log[i].fn # "visitSchemaQuery"
          /\ log[i].node = QueryRoot =>
                log[i].fn \in {"visitDefinition", "visitObjectDefinition",
                               "visitObjectFieldDefinitionList"}
    /\ (CleanWalk /\ root.kind = "Schema") =>
          LET q == CallbacksAtOrBelow(QueryRoot) IN
          /\ Len(q) >= 4
          /\ SubSeq(q, 1, 2) = <<"EnterDefinition", "EnterObjectDefinition">>
          /\ SubSeq(q, Len(q) - 1, Len(q)) =
                <<"LeaveObjectDefinition", "LeaveDefinition">>

\* C23 witness: the walk of a schema whose query root has fields, with
\* EnterSchemaQuery and LeaveSchemaQuery registered, has returned
C23_Witness ==
    /\ CleanWalk
    /\ root.kind = "Schema"
    /\ root.types # <<>>
    /\ {"EnterSchemaQuery", "LeaveSchemaQuery"} \subseteq h
    /\ Len(CallbacksAtOrBelow(QueryRoot)) > 6

\* the error of the default case of the type switch of generic visitor fn
UnknownVariantError(fn) ==
    IF fn = "visitDefinition" THEN "unknown definition"
    ELSE "invalid selection type"

\* event e is a callback of visitDefinition or visitSelection for an
\* element that is none of the variants
OfUnknownVariant(e) ==
    /\ e.fn \in {"visitDefinition", "visitSelection"}
    /\ Node(e.node).kind \in {"OtherDefinition", "OtherSelection"}

\* C24: for an element that is none of the variants, a generic enter that
\* returns nil (or an error with Prune() = false) is the last callback of
\* the walk, and Visit returns the unknown-variant error of the switch; a
\* generic enter that returns an error with Prune() = true is directly
\* followed by the generic leave of the element, and Visit does not return
\* the unknown-variant error; the generic leave fires for such an element
\* only directly after a pruning generic enter.
C24_UnknownVariantAborts ==
    \A i \in DOMAIN log :
       LET e == log[i] IN
       OfUnknownVariant(e) =>
          /\ (e.cb \in EnterCallbacks /\ e.res \in {"nil", "PruneFalse"}) =>
                /\ i = Len(log)
                /\ Done =>
                     /\ err.cause = UnknownVariantError(e.fn)
                     /\ err.crumbs # <<>>
          /\ (e.cb \in EnterCallbacks /\ e.res = "PruneTrue") =>
                /\ err.cause # UnknownVariantError(e.fn)
                /\ LeaveOf(e.cb) \in h =>
                     /\ Done => i < Len(log)
                     /\ i < Len(log) =>
                          /\ log[i + 1].cb = LeaveOf(e.cb)
                          /\ log[i + 1].node = e.node
                /\ (Done /\ \A j \in DOMAIN log : j # i => log[j].res = "nil")
                      => err = NoError
          /\ e.cb \in LeaveCallbacks =>
                /\ i > 1
                /\ log[i - 1].cb \in EnterCallbacks
                /\ log[i - 1].node = e.node
                /\ log[i - 1].res = "PruneTrue"

\* C24 witness: Visit returned the unknown-variant error for a selection
\* nested in a field, after EnterSelection returned nil for it
C24_Witness ==
    /\ Done
    /\ err.cause = "invalid selection type"
    /\ Len(log) >= 9
    /\ log[Len(log)].cb = "EnterSelection"
    /\ log[Len(log)].res = "nil"
    /\ Len(log[Len(log)].node) = 3

\* what visitSchema is to put into its channel: the other types in
\* insertion order, then the query root
SchemaElements == Iterator(<<>>, "types") \o <<QueryRoot>>

\* visitDefinitionList is running on the channel of visitSchema
Consuming ==
    /\ Len(stack) >= 2
    /\ stack[1].fn = "visitSchema"
    /\ stack[2].fn = "visitDefinitionList"

\* C21: the channel of visitSchema has capacity (number of other types +
\* 1); while visitSchema sends, the next send finds room in the buffer
\* (no send blocks), what is sent and what is still to send are the other
\* types and then the query root, the channel is open and
\* visitDefinitionList has not been called; when visitDefinitionList runs,
\* the channel is closed and fully produced, the call was given exactly
\* those (number of other types + 1) elements, and what it has still to
\* visit is what is left in the buffer; a walk that is running with the
\* channel made can always take a step (no deadlock); and when Visit has
\* returned, visitSchema is not left sending: a successful walk has
\* drained the channel, an aborted one leaves the unread elements in a
\* closed channel.
C21_SchemaChannelProducedBeforeConsumed ==
    /\ chan.pc # "none" =>
          /\ root.kind = "Schema"
          /\ chan.cap = Len(root.types) + 1
          /\ Len(chan.buf) <= chan.cap
    /\ chan.pc = "sending" =>
          /\ chan.tosend # <<>> => Len(chan.buf) < chan.cap
          /\ chan.buf \o chan.tosend = SchemaElements
          /\ ~chan.closed
          /\ Len(stack) = 1 /\ Top.fn = "visitSchema"
    /\ chan.pc = "produced" => (chan.closed /\ chan.tosend = <<>>)
    /\ Consuming =>
          /\ chan.pc = "produced"
          /\ stack[2].ch = SchemaElements
          /\ Len(stack[2].ch) = Len(root.types) + 1
          /\ Len(stack[2].todo) = Len(chan.buf)
          /\ chan.buf = SubSeq(SchemaElements,
                               Len(SchemaElements) - Len(chan.buf) + 1,
                               Len(SchemaElements))
    /\ (status = "running" /\ chan.pc # "none") => ENABLED Next
    /\ Done =>
          /\ chan.pc \in {"none", "produced"}
          /\ (chan.pc = "produced" /\ err = NoError) => chan.buf = <<>>

\* C21 witness: a walk of a schema with two other types was aborted by the
\* first callback for the first of them, and Visit returned with the other
\* type and the query root unread in the closed channel
C21_Witness ==
    /\ Done
    /\ err # NoError
    /\ chan.closed
    /\ Len(chan.buf) = 2
    /\ chan.cap = 3
    /\ log[Len(log)].cb = "EnterDefinition"

====
